---- MODULE Spec2Model ----
(***************************************************************************)
(* A model of the browser front ends of this repository:                   *)
(*   - CivilEye: the drawing reducer (useDrawingContext), the 2D drawing   *)
(*     canvas (DrawingCanvas) and the 2D-to-3D conversion (Building3D);    *)
(*   - PhysicsLearn: the p5 simulations (SimulationsSystem), the three.js  *)
(*     effect loops (ThreeEffectsManager) and the performance mode         *)
(*     (PerformanceToggle, PerformanceManager).                            *)
(* Each subsystem has its own specification over the variables it uses;    *)
(* the variables of the other subsystems stay at their initial values.     *)
(***************************************************************************)
EXTENDS Integers, Sequences, FiniteSets, TLC

VARIABLES
    \* ---- CivilEye ----
    state,        \* the useReducer state of DrawingProvider
    activeView,   \* App: '2d' (DrawingCanvas mounted) or '3d' (Viewport3D mounted)
    currentPath,  \* DrawingCanvas useState: the points of the shape being drawn
    now,          \* Date.now(), the source of object ids
    scene,        \* the groups Building3D hands to the 3D canvas (empty when not shown)
    added,        \* history: every ADD_OBJECT payload in dispatch order, with what became of it
    gesture,      \* history: the mouse gesture in progress on the canvas
    pathSnap,     \* history: snapping settings under which the current path was drawn
    \* ---- PhysicsLearn: SimulationsSystem ----
    simulations,  \* keys of this.simulations: the sketches whose container exists
    isSetUp,      \* per sketch: p.setup has run, the model object exists
    isRunning,    \* per sketch: the closure's isRunning flag
    modelDirty,   \* per sketch: the model's update() has run since its last reset()
    lastEvent,    \* history: the last event handled, and the flag of its sketch before it
    \* ---- PhysicsLearn: ThreeEffectsManager ----
    containers,       \* ids of the effect containers the page has
    disabled3D,       \* window.DISABLE_3D_BACKGROUNDS when the manager was constructed
    animationFrames,  \* this.animationFrames: key -> frame id, 0 for a key not set
    pendingFrame,     \* per loop: id of its requested, not yet run or cancelled frame; 0 for none
    nextFrameId,      \* the id the next requestAnimationFrame returns
    destroyed,        \* destroy() has been called
    renderedAfterDestroy, \* history: loops that rendered a frame after destroy()
    \* ---- PhysicsLearn: PerformanceToggle and PerformanceManager ----
    storedMode,       \* localStorage 'physicslearn-performance-mode'; "none" when not set
    toggleExists,     \* window.performanceToggle has been constructed on this page
    isAdvancedMode,   \* PerformanceToggle.isAdvancedMode
    managerExists,    \* window.performanceManager exists on this page
    isLowEndDevice,   \* PerformanceManager.isLowEndDevice
    hardwareConcurrency,         \* navigator.hardwareConcurrency
    DISABLE_3D_BACKGROUNDS,      \* the window global: "undefined", "true" or "false"
    PARTICLE_COUNT_MULTIPLIER,   \* the window global, in units of 1/320; Undefined when not set
    toggleHistory,    \* history: the toggles on this page and the state before the last pair
    \* ---- PhysicsLearn: AuthManager, registration form ----
    \* Two runs of the page receive the same events and the same values for
    \* every field but password and confirmPassword.
    form,             \* per run: the values of the inputs of the registration form
    passwordStrength, \* per run: this.passwordStrength
    currentStep,      \* per run: this.currentStep
    usernameAvailable,\* this.usernameAvailable: "null", "true" or "false"
    debounce,         \* the 300 ms timer of setupUsernameCheck is pending
    checks,           \* the pending 500 ms timers of checkUsernameAvailability, oldest first
    submission,       \* per run: the userData of a registration in flight, or NoSubmission
    regStorage,       \* per run: localStorage keys written by the registration page
    advancedWith,     \* history, per run: the username in the field if the last event left step 2 for step 3
    loadedInto,       \* history: the fields loadSavedFormData wrote when the page was last loaded
    registrations,    \* history, per run: the registrations that have succeeded
    \* The login page (auth.js)
    loginForm,        \* the values of the email and password inputs of the login form
    loginLoading,     \* the submit button of the login form is loading and disabled
    loginStorage,     \* localStorage keys written by the login page
    errorsShown,      \* error notifications added to the document since it was loaded
    location,         \* "login" on the login page, "redirect" once redirectAfterLogin has run
    loginAttempt,     \* the handleLogin call in flight, or the last one, with what it found
    attempts          \* handleLogin calls so far

civilVars == <<state, activeView, currentPath, now, scene, added, gesture, pathSnap>>

simVars == <<simulations, isSetUp, isRunning, modelDirty, lastEvent>>

fxVars ==
    <<containers, disabled3D, animationFrames, pendingFrame, nextFrameId, destroyed,
      renderedAfterDestroy>>

perfVars ==
    <<storedMode, toggleExists, isAdvancedMode, managerExists, isLowEndDevice,
      hardwareConcurrency, DISABLE_3D_BACKGROUNDS, PARTICLE_COUNT_MULTIPLIER, toggleHistory>>

regVars ==
    <<form, passwordStrength, currentStep, usernameAvailable, debounce, checks, submission,
      regStorage, advancedWith, loadedInto, registrations>>

loginVars ==
    <<loginForm, loginLoading, loginStorage, errorsShown, location, loginAttempt, attempts>>

vars == <<civilVars, simVars, fxVars, perfVars, regVars, loginVars>>

(***************************************************************************)
(* Bounds of the model.                                                    *)
(***************************************************************************)
MaxObjects == 2     \* addObject calls in one run of ObjectsSpec
MaxDrawn == 1       \* objects completed on the canvas in one run
MaxPath == 3        \* points accumulated in currentPath
MaxNow == 1         \* clock ticks
MaxClicks == 3      \* consecutive polygon clicks that are counted

(***************************************************************************)
(* JavaScript numbers.  Coordinates are integers; NaN is a distinguished   *)
(* value outside the range of every coordinate the model computes.         *)
(***************************************************************************)
NaN == -1000000

JSAdd(a, b) == IF a = NaN \/ b = NaN THEN NaN ELSE a + b
JSSub(a, b) == IF a = NaN \/ b = NaN THEN NaN ELSE a - b
JSMul(a, b) == IF a = NaN \/ b = NaN THEN NaN ELSE a * b
JSAbs(a) == IF a = NaN THEN NaN ELSE IF a < 0 THEN -a ELSE a

\* Math.round(x / g) * g.  Math.round rounds half up: floor(x/g + 1/2).
\* For g = 0 the quotient is +-Infinity or NaN and the product is NaN.
RoundToMultiple(x, g) ==
    IF x = NaN \/ g = NaN \/ g = 0 THEN NaN
    ELSE ((2 * x + g) \div (2 * g)) * g

(***************************************************************************)
(* useDrawingContext: tools, initial state, reducer.                       *)
(***************************************************************************)
DRAWING_TOOLS == {"select", "line", "rectangle", "circle", "polygon",
                  "freehand", "measure", "text"}

WallSettingsInit == [height |-> 10, thickness |-> 6]

initialState ==
    [activeTool   |-> "select",
     isDrawing    |-> FALSE,
     objects      |-> <<>>,
     gridSize     |-> 20,
     snapToGrid   |-> TRUE,
     wallSettings |-> WallSettingsInit]

\* { ...r, ...upd }
Merge(r, upd) == [k \in DOMAIN r |-> IF k \in DOMAIN upd THEN upd[k] ELSE r[k]]

FilterOutId(objs, id) == SelectSeq(objs, LAMBDA obj : obj.id # id)

AddObjectFirst(st, payload) == [st EXCEPT !.objects = <<payload>> \o st.objects]

ReduceAddObject(st, payload) == [st EXCEPT !.objects = Append(st.objects, payload)]

ReduceDeleteObject(st, id) == [st EXCEPT !.objects = FilterOutId(st.objects, id)]

drawingReducer(st, action) ==
    CASE action.type = "SET_ACTIVE_TOOL" ->
           [st EXCEPT !.activeTool = action.payload]
      [] action.type = "SET_DRAWING_STATE" ->
           [st EXCEPT !.isDrawing = action.payload.isDrawing]
      [] action.type = "ADD_OBJECT" -> ReduceAddObject(st, action.payload)
      [] action.type = "DELETE_OBJECT" -> ReduceDeleteObject(st, action.payload)
      [] action.type = "SET_GRID_SETTINGS" ->
           [st EXCEPT !.gridSize = action.payload.gridSize,
                      !.snapToGrid = action.payload.snapToGrid]
      [] action.type = "UPDATE_WALL_SETTINGS" ->
           [st EXCEPT !.wallSettings = Merge(st.wallSettings, action.payload)]
      [] action.type = "CLEAR_CANVAS" -> [st EXCEPT !.objects = <<>>]
      [] OTHER -> st

(***************************************************************************)
(* Building3D: one group per rectangle, line or polygon; other types give  *)
(* null and are filtered out.  Lengths of the 3D scene are held as integer *)
(* multiples of 1/Unit, so that w/2, thickness/12 and 0.1 are exact.       *)
(* Math.sqrt and Math.atan2 are not evaluated: a segment keeps the squared *)
(* length and the two end points its rotation is computed from.            *)
(***************************************************************************)
Unit == 12 * 5

Scaled(v) == JSMul(v, Unit)
Half(v) == JSMul(v, Unit \div 2)             \* v / 2
InchesToFeet(v) == JSMul(v, Unit \div 12)    \* v / 12
Tenth == Unit \div 10                        \* 0.1

createWall(obj, wallSettings, index) ==
    LET thickness == InchesToFeet(wallSettings.thickness)
        height == wallSettings.height
        width == JSAbs(obj.width)
        cx == JSAdd(Scaled(obj.x), Half(obj.width))
        cz == JSAdd(Scaled(obj.y), Half(obj.height))
    IN [key      |-> <<"wall", index>>,
        position |-> <<cx, Half(height), cz>>,
        box      |-> <<Scaled(width), Scaled(height), thickness>>,
        floorPosition |-> <<cx, 0, cz>>,
        floorBox |-> <<Scaled(width), Tenth, thickness>>]

Segment(start, end, wallSettings) ==
    LET dx == JSSub(end.x, start.x)
        dy == JSSub(end.y, start.y)
    IN [position |-> <<Half(JSAdd(start.x, end.x)), Half(wallSettings.height),
                       Half(JSAdd(start.y, end.y))>>,
        lengthSq |-> JSAdd(JSMul(dx, dx), JSMul(dy, dy)),
        from     |-> start,
        to       |-> end,
        height   |-> Scaled(wallSettings.height),
        thickness |-> InchesToFeet(wallSettings.thickness)]

createLine(obj, wallSettings, index) ==
    [key     |-> <<"line", index>>,
     segment |-> Segment(obj.points[1], obj.points[2], wallSettings)]

createPolygonWall(obj, wallSettings, index) ==
    LET n == Len(obj.points)
    IN [key      |-> <<"polygon", index>>,
        segments |-> [i \in 1..n |->
                        Segment(obj.points[i], obj.points[(i % n) + 1], wallSettings)]]

\* objects.map(...), null for a type without a case; index is the 0-based position
MapObject(obj, wallSettings, index) ==
    CASE obj.type = "rectangle" -> createWall(obj, wallSettings, index)
      [] obj.type = "line" -> createLine(obj, wallSettings, index)
      [] obj.type = "polygon" -> createPolygonWall(obj, wallSettings, index)
      [] OTHER -> [key |-> <<"null", index>>]

IsGroup(c) == c.key[1] # "null"

KeepAll(components) == components

\* .filter(Boolean)
FilterBoolean(components) == SelectSeq(components, IsGroup)

Building3D(objects, wallSettings) ==
    FilterBoolean([i \in 1..Len(objects) |-> MapObject(objects[i], wallSettings, i - 1)])

\* App and Viewport3D: Building3D is rendered in the 3D view when objects.length > 0
Render(st, view) ==
    IF view = "3d" /\ Len(st.objects) > 0
    THEN Building3D(st.objects, st.wallSettings)
    ELSE <<>>

(***************************************************************************)
(* DrawingCanvas: snapping and the three mouse handlers.                   *)
(***************************************************************************)
\* Canvas coordinates getMousePos can return (a bounded sample)
MousePositions == {[x |-> 3, y |-> 12], [x |-> 10, y |-> 30]}

\* Values the Grid Size field hands to setGridSettings: parseInt of what was typed
GridSizeInputs == {0, 5, 20}

\* Values the wall settings fields hand to updateWallSettings
WallSettingsInputs == {[height |-> 12], [height |-> 10]}

snapToGridPoint(point, snapToGrid, gridSize) ==
    IF ~snapToGrid THEN point
    ELSE [x |-> RoundToMultiple(point.x, gridSize),
          y |-> RoundToMultiple(point.y, gridSize)]

SnapOf(pos) == snapToGridPoint(pos, state.snapToGrid, state.gridSize)

\* The object handleMouseUp builds for the active tool, or "none"
NewObject(tool, path, snappedPos, id) ==
    CASE tool = "line" /\ Len(path) >= 1 ->
           [id |-> id, type |-> "line", points |-> <<path[1], snappedPos>>]
      [] tool = "rectangle" /\ Len(path) >= 1 ->
           [id |-> id, type |-> "rectangle", x |-> path[1].x, y |-> path[1].y,
            width |-> JSSub(snappedPos.x, path[1].x),
            height |-> JSSub(snappedPos.y, path[1].y)]
      [] tool = "circle" /\ Len(path) >= 1 ->
           LET dx == JSSub(snappedPos.x, path[1].x)
               dy == JSSub(snappedPos.y, path[1].y)
           IN [id |-> id, type |-> "circle", x |-> path[1].x, y |-> path[1].y,
               radiusSq |-> JSAdd(JSMul(dx, dx), JSMul(dy, dy))]
      [] tool = "polygon" /\ Len(path) >= 3 ->
           [id |-> id, type |-> "polygon", points |-> Append(path, snappedPos)]
      [] tool = "freehand" /\ Len(path) >= 2 ->
           [id |-> id, type |-> "freehand", points |-> Append(path, snappedPos)]
      [] OTHER -> [type |-> "none"]

StartsPath(tool) == tool \in {"line", "rectangle", "circle", "freehand"}

\* History values.  gesture: the phase of the mouse gesture on the canvas ("down"
\* after a mouse-down, "up" after the mouse-up that follows it, "none" after any
\* other event than a mouse-move), the number of objects when it began, and for
\* the polygon tool the number of completed clicks in a row and whether the first
\* of them began with no drawing in progress.  pathSnap: the grid size under
\* which every point of currentPath was snapped, or off.
NoGesture == [phase |-> "none", base |-> 0, clicks |-> 0, fresh |-> TRUE]
SnapOff == [on |-> FALSE, g |-> 0]
SnapNow == IF state.snapToGrid THEN [on |-> TRUE, g |-> state.gridSize] ELSE SnapOff

handleMouseDown(pos) ==
    LET snappedPos == SnapOf(pos)
        tool == state.activeTool
        starts == StartsPath(tool) \/ (tool = "polygon" /\ ~state.isDrawing)
        appends == tool = "polygon" /\ state.isDrawing
    IN /\ activeView = "2d"
       /\ Len(added) < MaxDrawn
       /\ appends => Len(currentPath) < MaxPath
       /\ state' = IF starts
                   THEN drawingReducer(state, [type |-> "SET_DRAWING_STATE",
                                               payload |-> [isDrawing |-> TRUE]])
                   ELSE state
       /\ currentPath' = IF starts THEN <<snappedPos>>
                         ELSE IF appends THEN Append(currentPath, snappedPos)
                         ELSE currentPath
       /\ pathSnap' = IF starts THEN SnapNow
                      ELSE IF appends /\ pathSnap # SnapNow THEN SnapOff
                      ELSE pathSnap
       /\ gesture' = IF tool = "polygon"
                     THEN IF gesture.phase = "up"
                          THEN [gesture EXCEPT !.phase = "down"]
                          ELSE [phase |-> "down", base |-> Len(state.objects),
                                clicks |-> 0, fresh |-> ~state.isDrawing]
                     ELSE [phase |-> "down", base |-> Len(state.objects),
                           clicks |-> 0, fresh |-> TRUE]
       /\ scene' = Render(state', activeView)
       /\ UNCHANGED <<activeView, now, added>>

\* handleMouseMove only moves the status-bar position and repaints the preview
handleMouseMove(pos) ==
    /\ activeView = "2d"
    /\ UNCHANGED <<state, activeView, currentPath, now, scene, added, gesture, pathSnap>>

handleMouseUp(pos) ==
    LET snappedPos == SnapOf(pos)
        newObject == NewObject(state.activeTool, currentPath, snappedPos, now)
        adds == newObject.type # "none"
        afterAdd == IF adds
                    THEN drawingReducer(state, [type |-> "ADD_OBJECT", payload |-> newObject])
                    ELSE state
        snapped == pathSnap.on /\ pathSnap = SnapNow
    IN /\ activeView = "2d"
       /\ gesture' = IF gesture.phase = "down"
                     THEN [gesture EXCEPT !.phase = "up",
                             !.clicks = IF gesture.clicks < MaxClicks
                                        THEN gesture.clicks + 1 ELSE gesture.clicks]
                     ELSE NoGesture
       /\ IF ~state.isDrawing
          THEN UNCHANGED <<state, currentPath, added, scene>>
          ELSE /\ adds => Len(added) < MaxDrawn
               /\ state' = drawingReducer(afterAdd, [type |-> "SET_DRAWING_STATE",
                                                     payload |-> [isDrawing |-> FALSE]])
               /\ currentPath' = <<>>
               /\ added' = IF adds
                           THEN Append(added, [obj |-> newObject, live |-> TRUE,
                                               snapped |-> snapped, g |-> state.gridSize])
                           ELSE added
               /\ scene' = Render(state', activeView)
       /\ pathSnap' = IF state.isDrawing THEN SnapOff ELSE pathSnap
       /\ UNCHANGED <<activeView, now>>

\* Toolbar: handleToolSelect
setActiveTool(tool) ==
    /\ state' = drawingReducer(state, [type |-> "SET_ACTIVE_TOOL", payload |-> tool])
    /\ gesture' = NoGesture
    /\ scene' = Render(state', activeView)
    /\ UNCHANGED <<activeView, currentPath, now, added, pathSnap>>

\* PropertiesPanel, GridProperties.handleChange
setGridSettings(gridSize, snapToGrid) ==
    /\ state' = drawingReducer(state, [type |-> "SET_GRID_SETTINGS",
                    payload |-> [gridSize |-> gridSize, snapToGrid |-> snapToGrid]])
    /\ pathSnap' = IF gridSize = state.gridSize /\ snapToGrid = state.snapToGrid
                   THEN pathSnap ELSE SnapOff
    /\ gesture' = NoGesture
    /\ scene' = Render(state', activeView)
    /\ UNCHANGED <<activeView, currentPath, now, added>>

ChangeGridSize ==
    \E g \in GridSizeInputs : g # state.gridSize /\ setGridSettings(g, state.snapToGrid)

ChangeSnapToGrid == setGridSettings(state.gridSize, ~state.snapToGrid)

\* PropertiesPanel, WallProperties.handleChange
updateWallSettings(settings) ==
    /\ state' = drawingReducer(state, [type |-> "UPDATE_WALL_SETTINGS", payload |-> settings])
    /\ state' # state
    /\ gesture' = NoGesture
    /\ scene' = Render(state', activeView)
    /\ UNCHANGED <<activeView, currentPath, now, added, pathSnap>>

\* Header: the 2D Drawing / 3D View buttons.  DrawingCanvas is unmounted in the
\* 3D view, so its useState values are lost; the reducer state is kept.
setActiveView(view) ==
    /\ view # activeView
    /\ activeView' = view
    /\ currentPath' = <<>>
    /\ gesture' = NoGesture
    /\ pathSnap' = SnapOff
    /\ scene' = Render(state, view)
    /\ UNCHANGED <<state, now, added>>

\* useDrawing().deleteObject
deleteObject(id) ==
    /\ state' = drawingReducer(state, [type |-> "DELETE_OBJECT", payload |-> id])
    /\ added' = [k \in DOMAIN added |->
                   IF added[k].obj.id = id THEN [added[k] EXCEPT !.live = FALSE]
                   ELSE added[k]]
    /\ gesture' = NoGesture
    /\ scene' = Render(state', activeView)
    /\ UNCHANGED <<activeView, currentPath, now, pathSnap>>

\* useDrawing().clearCanvas
clearCanvas ==
    /\ Len(state.objects) > 0
    /\ state' = drawingReducer(state, [type |-> "CLEAR_CANVAS"])
    /\ added' = [k \in DOMAIN added |-> [added[k] EXCEPT !.live = FALSE]]
    /\ gesture' = NoGesture
    /\ scene' = Render(state', activeView)
    /\ UNCHANGED <<activeView, currentPath, now, pathSnap>>

\* Time passes between two events
Tick ==
    /\ now < MaxNow
    /\ now' = now + 1
    /\ UNCHANGED <<state, activeView, currentPath, scene, added, gesture, pathSnap>>

CivilInit ==
    /\ state = initialState
    /\ activeView = "2d"
    /\ currentPath = <<>>
    /\ now = 0
    /\ scene = <<>>
    /\ added = <<>>
    /\ gesture = NoGesture
    /\ pathSnap = SnapOff

\* A drawing completed on the canvas: what handleMouseUp hands to addObject for a
\* path drawn between the grid points of MousePositions at the initial grid size
GridPoints == {snapToGridPoint(pos, TRUE, initialState.gridSize) : pos \in MousePositions}

PathFor(tool, from, to) ==
    CASE tool = "polygon" -> <<from, to, from>>
      [] tool = "freehand" -> <<from, to>>
      [] OTHER -> <<from>>

addObject(object) ==
    /\ Len(added) < MaxObjects
    /\ state' = drawingReducer(state, [type |-> "ADD_OBJECT", payload |-> object])
    /\ added' = Append(added, [obj |-> object, live |-> TRUE, snapped |-> TRUE,
                               g |-> state.gridSize])
    /\ gesture' = NoGesture
    /\ scene' = Render(state', activeView)
    /\ UNCHANGED <<activeView, currentPath, now, pathSnap>>

(***************************************************************************)
(* PhysicsLearn, SimulationsSystem: four p5 sketches.  A sketch function   *)
(* runs when the system is constructed (DOMContentLoaded) and registers    *)
(* its control methods; p5 calls p.setup, which creates the model object,  *)
(* and then p.draw on every frame.  Before p.setup the model variable is   *)
(* undefined, and a method that dereferences it throws.                    *)
(***************************************************************************)
SimulationIds == {"pendulum", "wave", "gravity", "electric"}

\* Parameters whose setter calls the model's reset(): PendulumSimulation.setInitialAngle
ResettingParameters == {<<"pendulum", "angle">>}

Parameters ==
    {<<"pendulum", "length">>, <<"pendulum", "angle">>, <<"wave", "amplitude">>,
     <<"gravity", "mass">>, <<"electric", "charge1">>}

Event(kind, id) == [kind |-> kind, id |-> id, before |-> isRunning[id], updated |-> FALSE]

\* p.setup: the model is constructed
Setup(id) ==
    /\ id \in simulations
    /\ ~isSetUp[id]
    /\ isSetUp' = [isSetUp EXCEPT ![id] = TRUE]
    /\ modelDirty' = [modelDirty EXCEPT ![id] = FALSE]
    /\ lastEvent' = Event("setup", id)
    /\ UNCHANGED <<simulations, isRunning>>

\* p.draw: update() runs when the flag is set
Draw(id) ==
    /\ id \in simulations
    /\ isSetUp[id]
    /\ modelDirty' = [modelDirty EXCEPT ![id] = IF isRunning[id] THEN TRUE ELSE @]
    /\ lastEvent' = [Event("draw", id) EXCEPT !.updated = isRunning[id]]
    /\ UNCHANGED <<simulations, isSetUp, isRunning>>

\* startSimulation / the sketch's start
startSimulation(id) ==
    /\ isRunning' = IF id \in simulations THEN [isRunning EXCEPT ![id] = TRUE] ELSE isRunning
    /\ lastEvent' = Event("start", id)
    /\ UNCHANGED <<simulations, isSetUp, modelDirty>>

\* pauseSimulation / the sketch's pause
pauseSimulation(id) ==
    /\ isRunning' = IF id \in simulations THEN [isRunning EXCEPT ![id] = FALSE] ELSE isRunning
    /\ lastEvent' = Event("pause", id)
    /\ UNCHANGED <<simulations, isSetUp, modelDirty>>

\* resetSimulation / the sketch's reset: model.reset(); isRunning = false.
\* With the model still undefined the first statement throws.
resetSimulation(id) ==
    /\ IF id \in simulations /\ isSetUp[id]
       THEN /\ modelDirty' = [modelDirty EXCEPT ![id] = FALSE]
            /\ isRunning' = [isRunning EXCEPT ![id] = FALSE]
       ELSE UNCHANGED <<modelDirty, isRunning>>
    /\ lastEvent' = Event("reset", id)
    /\ UNCHANGED <<simulations, isSetUp>>

\* updateSimulationParameter / the sketch's updateParameter
updateSimulationParameter(id, parameter) ==
    /\ modelDirty' = IF id \in simulations /\ isSetUp[id]
                        /\ <<id, parameter>> \in ResettingParameters
                     THEN [modelDirty EXCEPT ![id] = FALSE]
                     ELSE modelDirty
    /\ lastEvent' = Event("parameter", id)
    /\ UNCHANGED <<simulations, isSetUp, isRunning>>

\* p.windowResized of one sketch: resizes the canvas and the model
windowResized(id) ==
    /\ id \in simulations
    /\ lastEvent' = Event("resize", id)
    /\ UNCHANGED <<simulations, isSetUp, isRunning, modelDirty>>

\* pauseAll, on visibilitychange to hidden: every sketch's pause
pauseAll ==
    /\ isRunning' = [id \in SimulationIds |-> FALSE]
    /\ lastEvent' = [kind |-> "pauseAll", id |-> "pendulum", before |-> FALSE, updated |-> FALSE]
    /\ UNCHANGED <<simulations, isSetUp, modelDirty>>

\* The state after new SimulationsSystem(): the sketches of the containers the
\* page has are registered, none is set up.
SimInit ==
    /\ simulations \in SUBSET SimulationIds
    /\ isSetUp = [id \in SimulationIds |-> FALSE]
    /\ isRunning = [id \in SimulationIds |-> FALSE]
    /\ modelDirty = [id \in SimulationIds |-> FALSE]
    /\ lastEvent = [kind |-> "none", id |-> "pendulum", before |-> FALSE, updated |-> FALSE]

\* A page without the simulations script
SimParked ==
    /\ simulations = {}
    /\ isSetUp = [id \in SimulationIds |-> FALSE]
    /\ isRunning = [id \in SimulationIds |-> FALSE]
    /\ modelDirty = [id \in SimulationIds |-> FALSE]
    /\ lastEvent = [kind |-> "none", id |-> "pendulum", before |-> FALSE, updated |-> FALSE]

nonSimVars == <<civilVars, fxVars, perfVars, regVars, loginVars>>

SetupSketch == (\E id \in SimulationIds : Setup(id)) /\ UNCHANGED nonSimVars
DrawFrame == (\E id \in SimulationIds : Draw(id)) /\ UNCHANGED nonSimVars
ClickStart == (\E id \in SimulationIds : startSimulation(id)) /\ UNCHANGED nonSimVars
ClickPause == (\E id \in SimulationIds : pauseSimulation(id)) /\ UNCHANGED nonSimVars
ClickReset == (\E id \in SimulationIds : resetSimulation(id)) /\ UNCHANGED nonSimVars
ChangeParameter ==
    (\E p \in Parameters : updateSimulationParameter(p[1], p[2])) /\ UNCHANGED nonSimVars
ResizeWindow == (\E id \in SimulationIds : windowResized(id)) /\ UNCHANGED nonSimVars
HidePage == pauseAll /\ UNCHANGED nonSimVars


(***************************************************************************)
(* PhysicsLearn, ThreeEffectsManager: up to seven render loops.  Each      *)
(* create function returns early without its container; otherwise it calls *)
(* animate(), which requests the next frame, stores the id returned under  *)
(* a key of this.animationFrames and renders.                              *)
(***************************************************************************)
MaxFrameId == 9

ContainerIds ==
    {"quantum-atom", "three-bg", "wave-function", "particle-field", "pendulum-preview",
     "wave-preview", "gravity-preview"}

\* The create functions in the order init() calls them
LoopOrder ==
    <<"createQuantumAtom", "createMolecularStructure", "createWaveFunction",
      "createParticleField", "createPendulumPreview", "createWavePreview",
      "createGravityPreview">>

Loops == {LoopOrder[i] : i \in DOMAIN LoopOrder}

\* The key of this.animationFrames under which a loop's animate stores its frame id
FrameKey(loop) ==
    CASE loop = "createQuantumAtom" -> "quantum"
      [] loop = "createMolecularStructure" -> "molecular"
      [] loop = "createWaveFunction" -> "wave"
      [] loop = "createParticleField" -> "particles"
      [] loop = "createPendulumPreview" -> "pendulum"
      [] loop = "createWavePreview" -> "wave"
      [] loop = "createGravityPreview" -> "gravity"

FrameKeys == {FrameKey(loop) : loop \in Loops}

\* The early return of each create function, negated
Starts(loop, present, disabled) ==
    CASE loop = "createQuantumAtom" -> "quantum-atom" \in present
      [] loop = "createMolecularStructure" -> "three-bg" \in present /\ ~disabled
      [] loop = "createWaveFunction" -> "wave-function" \in present
      [] loop = "createParticleField" -> "particle-field" \in present \/ "three-bg" \in present
      [] loop = "createPendulumPreview" -> "pendulum-preview" \in present
      [] loop = "createWavePreview" -> "wave-preview" \in present
      [] loop = "createGravityPreview" -> "gravity-preview" \in present

\* Number of loops among the first n of init() that start
StartedUpTo(n, present, disabled) ==
    Cardinality({i \in 1..n : Starts(LoopOrder[i], present, disabled)})

\* The id of the frame a loop requests in its first animate() call
FirstFrame(i, present, disabled) ==
    IF Starts(LoopOrder[i], present, disabled) THEN StartedUpTo(i, present, disabled) ELSE 0

Max(S) == CHOOSE x \in S : \A y \in S : y <= x

\* new ThreeEffectsManager(): init() runs the create functions in order; a
\* later loop with the same key overwrites the id stored by an earlier one.
FxInit ==
    /\ containers \in SUBSET ContainerIds
    /\ disabled3D \in BOOLEAN
    /\ pendingFrame =
          [loop \in Loops |->
              FirstFrame(CHOOSE i \in DOMAIN LoopOrder : LoopOrder[i] = loop,
                         containers, disabled3D)]
    /\ animationFrames =
          [key \in FrameKeys |->
              Max({0} \cup {FirstFrame(i, containers, disabled3D) :
                               i \in {j \in DOMAIN LoopOrder : FrameKey(LoopOrder[j]) = key}})]
    /\ nextFrameId = StartedUpTo(Len(LoopOrder), containers, disabled3D) + 1
    /\ destroyed = FALSE
    /\ renderedAfterDestroy = {}

\* A page without the effects script
FxParked ==
    /\ containers = {}
    /\ disabled3D = FALSE
    /\ pendingFrame = [loop \in Loops |-> 0]
    /\ animationFrames = [key \in FrameKeys |-> 0]
    /\ nextFrameId = 1
    /\ destroyed = FALSE
    /\ renderedAfterDestroy = {}

\* The browser runs a loop's requested frame: animate requests the next frame,
\* stores its id under the loop's key, and renders.
animate(loop) ==
    /\ pendingFrame[loop] # 0
    /\ nextFrameId <= MaxFrameId
    /\ pendingFrame' = [pendingFrame EXCEPT ![loop] = nextFrameId]
    /\ animationFrames' = [animationFrames EXCEPT ![FrameKey(loop)] = nextFrameId]
    /\ nextFrameId' = nextFrameId + 1
    /\ renderedAfterDestroy' =
          IF destroyed THEN renderedAfterDestroy \cup {loop} ELSE renderedAfterDestroy
    /\ UNCHANGED <<containers, disabled3D, destroyed>>

\* destroy(): cancels the frame ids stored in this.animationFrames, then
\* replaces the object by an empty one.
destroy ==
    /\ LET stored == {animationFrames[key] : key \in FrameKeys} \ {0}
       IN pendingFrame' =
              [loop \in Loops |->
                  IF pendingFrame[loop] \in stored THEN 0 ELSE pendingFrame[loop]]
    /\ animationFrames' = [key \in FrameKeys |-> 0]
    /\ destroyed' = TRUE
    /\ UNCHANGED <<containers, disabled3D, nextFrameId, renderedAfterDestroy>>

nonFxVars == <<civilVars, simVars, perfVars, regVars, loginVars>>

AnimationFrame == (\E loop \in Loops : animate(loop)) /\ UNCHANGED nonFxVars
Destroy == destroy /\ UNCHANGED nonFxVars

(***************************************************************************)
(* PhysicsLearn, performance modes.  PerformanceManager is constructed at  *)
(* DOMContentLoaded and adjusts two window globals every second from the   *)
(* measured FPS and every five seconds from the memory in use;             *)
(* PerformanceToggle is constructed a second later, takes its mode from    *)
(* localStorage or from the device, and writes the same two globals.       *)
(* PARTICLE_COUNT_MULTIPLIER is kept in units of 1/320, in which every     *)
(* value the code can produce is a whole number.                           *)
(***************************************************************************)
One == 320
Tenth320 == 32
ThreeTenths == 96
Half320 == 160
Undefined == -1

Min(a, b) == IF a <= b THEN a ELSE b

\* JavaScript's x || d for a number x: d for undefined and for 0
OrDefault(x, d) == IF x = Undefined \/ x = 0 THEN d ELSE x

CoreCounts == {2, 8}
FpsSamples == {20, 45, 60}

NoToggles == [n |-> 0, mode |-> FALSE, stored |-> "none", restored |-> FALSE, fresh |-> FALSE]

\* saveUserPreference with the mode not written as 'advanced'
SaveAlwaysPerformance(mode) == "performance"

\* saveUserPreference: the value written to localStorage
saveUserPreference(mode) == IF mode THEN "advanced" ELSE "performance"

\* loadUserPreference: the mode taken from the saved value, else from the device
loadUserPreference(saved) ==
    IF saved = "advanced" THEN TRUE
    ELSE IF saved = "performance" THEN FALSE
    ELSE IF managerExists THEN ~isLowEndDevice
    ELSE hardwareConcurrency > 4

\* applyPerformanceMode: the two globals written for a mode
applyPerformanceMode(mode) ==
    /\ DISABLE_3D_BACKGROUNDS' = IF mode THEN "false" ELSE "true"
    /\ PARTICLE_COUNT_MULTIPLIER' = IF mode THEN One ELSE 0

\* new PerformanceToggle(), 1000 ms after DOMContentLoaded
ConstructToggle ==
    /\ ~toggleExists
    /\ toggleExists' = TRUE
    /\ isAdvancedMode' = loadUserPreference(storedMode)
    /\ applyPerformanceMode(loadUserPreference(storedMode))
    /\ toggleHistory' = [NoToggles EXCEPT !.restored = storedMode # "none", !.fresh = TRUE]
    /\ UNCHANGED <<storedMode, managerExists, isLowEndDevice, hardwareConcurrency>>

\* togglePerformanceMode, on a click on the toggle button
togglePerformanceMode ==
    /\ toggleExists
    /\ isAdvancedMode' = ~isAdvancedMode
    /\ storedMode' = saveUserPreference(~isAdvancedMode)
    /\ applyPerformanceMode(~isAdvancedMode)
    /\ toggleHistory' =
          IF toggleHistory.n = 1
          THEN [toggleHistory EXCEPT !.n = 2, !.fresh = TRUE]
          ELSE [toggleHistory EXCEPT !.n = 1, !.mode = isAdvancedMode,
                                     !.stored = storedMode, !.fresh = TRUE]
    /\ UNCHANGED <<toggleExists, managerExists, isLowEndDevice, hardwareConcurrency>>

\* enableLowEndOptimizations: the two globals
enableLowEndOptimizations ==
    /\ PARTICLE_COUNT_MULTIPLIER' = Tenth320
    /\ DISABLE_3D_BACKGROUNDS' = "true"

\* disableSomeOptimizations: Math.min((m || 0.3) * 1.5, 1)
disableSomeOptimizations ==
    /\ PARTICLE_COUNT_MULTIPLIER' =
          Min((3 * OrDefault(PARTICLE_COUNT_MULTIPLIER, ThreeTenths)) \div 2, One)
    /\ UNCHANGED DISABLE_3D_BACKGROUNDS

\* adjustQualityBasedOnFPS, once a second with the FPS measured
adjustQualityBasedOnFPS(fps) ==
    /\ managerExists
    /\ IF fps < 30 /\ ~isLowEndDevice
       THEN enableLowEndOptimizations /\ isLowEndDevice' = TRUE
       ELSE IF fps > 55 /\ isLowEndDevice
            THEN disableSomeOptimizations /\ UNCHANGED isLowEndDevice
            ELSE UNCHANGED <<PARTICLE_COUNT_MULTIPLIER, DISABLE_3D_BACKGROUNDS, isLowEndDevice>>
    /\ toggleHistory' = [toggleHistory EXCEPT !.fresh = FALSE]
    /\ UNCHANGED <<storedMode, toggleExists, isAdvancedMode, managerExists, hardwareConcurrency>>

\* enableMemoryOptimizations, from the memory monitor: Math.min(m || 1, 0.5)
enableMemoryOptimizations ==
    /\ managerExists
    /\ PARTICLE_COUNT_MULTIPLIER' = Min(OrDefault(PARTICLE_COUNT_MULTIPLIER, One), Half320)
    /\ toggleHistory' = [toggleHistory EXCEPT !.fresh = FALSE]
    /\ UNCHANGED <<storedMode, toggleExists, isAdvancedMode, managerExists, isLowEndDevice,
                   hardwareConcurrency, DISABLE_3D_BACKGROUNDS>>

\* A page load up to the end of DOMContentLoaded: the globals of the previous
\* page are gone, localStorage is kept, the manager (on a page that has its
\* script) detects the device and applies the low-end optimizations.
PageLoaded(hasManager, lowEnd, cores) ==
    /\ managerExists' = hasManager
    /\ isLowEndDevice' = (hasManager /\ (lowEnd \/ cores <= 2))
    /\ hardwareConcurrency' = cores
    /\ IF hasManager /\ (lowEnd \/ cores <= 2)
       THEN enableLowEndOptimizations
       ELSE /\ PARTICLE_COUNT_MULTIPLIER' = Undefined
            /\ DISABLE_3D_BACKGROUNDS' = "undefined"
    /\ toggleExists' = FALSE
    /\ isAdvancedMode' = FALSE
    /\ toggleHistory' = NoToggles

\* A first visit: nothing stored
PerfInit ==
    /\ storedMode = "none"
    /\ toggleExists = FALSE
    /\ isAdvancedMode = FALSE
    /\ toggleHistory = NoToggles
    /\ managerExists \in BOOLEAN
    /\ hardwareConcurrency \in CoreCounts
    /\ isLowEndDevice \in {low \in BOOLEAN :
                             /\ low => managerExists
                             /\ (managerExists /\ hardwareConcurrency <= 2) => low}
    /\ PARTICLE_COUNT_MULTIPLIER = IF isLowEndDevice THEN Tenth320 ELSE Undefined
    /\ DISABLE_3D_BACKGROUNDS = IF isLowEndDevice THEN "true" ELSE "undefined"

\* A page without the performance scripts
PerfParked ==
    /\ storedMode = "none"
    /\ toggleExists = FALSE
    /\ isAdvancedMode = FALSE
    /\ toggleHistory = NoToggles
    /\ managerExists = FALSE
    /\ hardwareConcurrency = 8
    /\ isLowEndDevice = FALSE
    /\ PARTICLE_COUNT_MULTIPLIER = Undefined
    /\ DISABLE_3D_BACKGROUNDS = "undefined"

nonPerfVars == <<civilVars, simVars, fxVars, regVars, loginVars>>

Reload ==
    /\ \E hasManager \in BOOLEAN, lowEnd \in BOOLEAN, cores \in CoreCounts :
          /\ PageLoaded(hasManager, lowEnd, cores)
          /\ UNCHANGED storedMode
    /\ UNCHANGED nonPerfVars
NewToggle == ConstructToggle /\ UNCHANGED nonPerfVars
ClickToggle == togglePerformanceMode /\ UNCHANGED nonPerfVars
MeasureFPS == (\E fps \in FpsSamples : adjustQualityBasedOnFPS(fps)) /\ UNCHANGED nonPerfVars
MemoryHigh == enableMemoryOptimizations /\ UNCHANGED nonPerfVars

(***************************************************************************)
(* PhysicsLearn, AuthManager: the three-step registration form.  The form  *)
(* has the inputs email (step 1) and username, password, confirmPassword   *)
(* (step 2), named as validateField and autoSaveFormData name them.        *)
(* Field values are drawn from samples without surrounding white space.    *)
(***************************************************************************)
MaxChecks == 2          \* pending availability checks
MaxRegistrations == 1   \* successful registrations of a run
MaxAttempts == 2        \* handleLogin calls

Runs == {1, 2}

EmailInputs == {"", "ada@example.org"}
UsernameInputs == {"", "neo", "Admin"}
\* Run 1 is the reference run; run 2 types the same password or another one
PasswordInputs == {<<"Abcdef1!", "Abcdef1!">>, <<"Abcdef1!", "Zyxwvu9?">>}

\* The requirement types of getPasswordRequirements a sample password meets
RequirementsMet(password) ==
    CASE password = "abc" -> {"lowercase"}
      [] password \in {"Abcdef1!", "Zyxwvu9?"} ->
           {"length", "uppercase", "lowercase", "number", "special"}
      [] OTHER -> {}

\* checkPasswordStrength: 20 for each requirement met
StrengthOf(password) == 20 * Cardinality(RequirementsMet(password))

\* isValidPassword: all five tests
isValidPassword(password) == Cardinality(RequirementsMet(password)) = 5

\* isValidEmail, on the samples
isValidEmail(email) == email = "ada@example.org"

\* isValidUsername: /^[a-zA-Z0-9_]{3,20}$/, on the samples
isValidUsername(name) == name \in {"neo", "Admin"}

\* String.prototype.toLowerCase, on the samples
ToLowerCase(name) == IF name = "Admin" THEN "admin" ELSE name

takenUsernames == {"admin", "user", "test", "demo", "physics", "student"}

simulateUsernameCheck(name) == ToLowerCase(name) \notin takenUsernames

\* String length of the username samples, as far as checkUsernameAvailability asks
AtLeastThree(name) == name # ""

NoSubmission == [pending |-> FALSE]
NoEntry == [set |-> FALSE]
EmptyStorage == [registration_draft |-> NoEntry, user_data |-> NoEntry,
                 registration_pending |-> NoEntry]

FieldNames == {"email", "username", "password", "confirmPassword"}

\* Object.fromEntries(new FormData(this.registerForm))
FormEntries(fields) == [k \in FieldNames |-> fields[k]]

\* delete data.password; delete data.confirmPassword
WithoutSecrets(data) == [k \in DOMAIN data \ {"password", "confirmPassword"} |-> data[k]]

\* autoSaveFormData keeping the two fields
DraftOfEverything(fields) == [set |-> TRUE, data |-> FormEntries(fields)]

\* autoSaveFormData: the value stored under 'registration_draft'
autoSaveFormData(fields) == [set |-> TRUE, data |-> WithoutSecrets(FormEntries(fields))]

\* The type of a field of the form when the page has just been loaded
FieldType(name) == IF name \in {"password", "confirmPassword"} THEN "password" ELSE "text"

\* loadSavedFormData: the keys of the draft whose value is written into the form
LoadedKeys(draft) ==
    IF draft.set THEN {k \in DOMAIN draft.data : FieldType(k) # "password"} ELSE {}

\* loadSavedFormData: the value of a field after it
Loaded(draft, name) == IF name \in LoadedKeys(draft) THEN draft.data[name] ELSE ""

\* validateField for the required inputs of a step
StepFieldsValid(step, fields) ==
    CASE step = 1 -> isValidEmail(fields.email)
      [] step = 2 -> /\ isValidUsername(fields.username)
                     /\ isValidPassword(fields.password)
                     /\ fields.confirmPassword # ""
                     /\ fields.confirmPassword = fields.password
      [] OTHER -> TRUE

validatePassword(run) == passwordStrength[run] >= 60
validatePasswordMatch(run) == form[run].password = form[run].confirmPassword
validateUsername == usernameAvailable = "true"

validateCurrentStep(run) ==
    /\ StepFieldsValid(currentStep[run], form[run])
    /\ currentStep[run] = 2 =>
          validatePassword(run) /\ validatePasswordMatch(run) /\ validateUsername

\* checkUsernameAvailability: the timers pending after it
checkUsernameAvailability(queue, name) ==
    IF AtLeastThree(name) THEN Append(queue, name) ELSE queue

\* An input event on the email or username input, the same in both runs:
\* the username listeners of attachEventListeners and setupUsernameCheck,
\* then the form's listener, autoSaveFormData.
nonRegVars == <<civilVars, simVars, fxVars, perfVars, loginVars>>

\* The model follows the page until a run has registered MaxRegistrations times
FormInUse == \A run \in Runs : registrations[run] < MaxRegistrations

NotAdvancing == [run \in Runs |-> "none"]

InputPublic(field, value) ==
    /\ FormInUse
    /\ \A run \in Runs : form[run][field] # value
    /\ (field = "username" /\ AtLeastThree(value)) => Len(checks) < MaxChecks
    /\ form' = [run \in Runs |-> [form[run] EXCEPT ![field] = value]]
    /\ checks' = IF field = "username" THEN checkUsernameAvailability(checks, value) ELSE checks
    /\ debounce' = IF field = "username" THEN TRUE ELSE debounce
    /\ regStorage' = [run \in Runs |->
          [regStorage[run] EXCEPT !.registration_draft = autoSaveFormData(form'[run])]]
    /\ advancedWith' = NotAdvancing
    /\ UNCHANGED <<passwordStrength, currentStep, usernameAvailable, submission, loadedInto>>
    /\ UNCHANGED <<registrations, nonRegVars>>

\* An input event on the password or confirmPassword input, with a value of
\* its own in each run: checkPasswordStrength for the password input, then
\* autoSaveFormData.
InputSecret(field, values) ==
    /\ FormInUse
    /\ \E run \in Runs : form[run][field] # values[run]
    /\ form' = [run \in Runs |-> [form[run] EXCEPT ![field] = values[run]]]
    /\ passwordStrength' =
          IF field = "password"
          THEN [run \in Runs |-> StrengthOf(values[run])]
          ELSE passwordStrength
    /\ regStorage' = [run \in Runs |->
          [regStorage[run] EXCEPT !.registration_draft = autoSaveFormData(form'[run])]]
    /\ advancedWith' = NotAdvancing
    /\ UNCHANGED <<currentStep, usernameAvailable, debounce, checks, submission, loadedInto>>
    /\ UNCHANGED <<registrations, nonRegVars>>

\* The 300 ms timer of setupUsernameCheck fires: checkUsernameAvailability
\* reads the field.  The field was last changed by an input event, so it
\* holds the same value in both runs.
DebounceFires ==
    /\ FormInUse
    /\ debounce
    /\ AtLeastThree(form[1].username) => Len(checks) < MaxChecks
    /\ debounce' = FALSE
    /\ checks' = checkUsernameAvailability(checks, form[1].username)
    /\ advancedWith' = NotAdvancing
    /\ UNCHANGED <<form, passwordStrength, currentStep, usernameAvailable, submission,
                   regStorage, loadedInto>>
    /\ UNCHANGED <<registrations, nonRegVars>>

\* The oldest 500 ms timer fires with the name it was started for.  A check
\* started by the latest input event is due 200 ms after that event's
\* debounce timer, so it waits for it.
CheckCompletes ==
    /\ FormInUse
    /\ checks # <<>>
    /\ ~(debounce /\ Len(checks) = 1 /\ AtLeastThree(form[1].username))
    /\ usernameAvailable' = IF simulateUsernameCheck(Head(checks)) THEN "true" ELSE "false"
    /\ checks' = Tail(checks)
    /\ advancedWith' = NotAdvancing
    /\ UNCHANGED <<form, passwordStrength, currentStep, debounce, submission, regStorage,
                   loadedInto>>
    /\ UNCHANGED <<registrations, nonRegVars>>

Advances(run) == validateCurrentStep(run) /\ currentStep[run] < 3

\* nextStep, on a click on Next or on the Enter key
nextStep ==
    /\ FormInUse
    /\ \E run \in Runs : currentStep[run] < 3
    /\ currentStep' = [run \in Runs |->
          IF Advances(run) THEN currentStep[run] + 1 ELSE currentStep[run]]
    /\ advancedWith' = [run \in Runs |->
          IF Advances(run) /\ currentStep[run] = 2
          THEN form[run].username ELSE "none"]
    /\ UNCHANGED <<form, passwordStrength, usernameAvailable, debounce, checks, submission,
                   regStorage, loadedInto>>
    /\ UNCHANGED <<registrations, nonRegVars>>

\* prevStep, on a click on Previous
prevStep ==
    /\ FormInUse
    /\ \E run \in Runs : currentStep[run] > 1
    /\ currentStep' = [run \in Runs |->
          IF currentStep[run] > 1 THEN currentStep[run] - 1 ELSE currentStep[run]]
    /\ advancedWith' = NotAdvancing
    /\ UNCHANGED <<form, passwordStrength, usernameAvailable, debounce, checks, submission,
                   regStorage, loadedInto>>
    /\ UNCHANGED <<registrations, nonRegVars>>

\* The submit button is shown on the last step and disabled while loading
CanSubmit(run) == currentStep[run] = 3 /\ ~submission[run].pending

\* handleRegistration up to the await: the form data is collected
handleRegistration ==
    /\ FormInUse
    /\ \E run \in Runs : CanSubmit(run)
    /\ submission' = [run \in Runs |->
          IF CanSubmit(run) /\ validateCurrentStep(run)
          THEN [pending |-> TRUE, userData |-> FormEntries(form[run])]
          ELSE submission[run]]
    /\ advancedWith' = NotAdvancing
    /\ UNCHANGED <<form, passwordStrength, currentStep, usernameAvailable, debounce, checks,
                   regStorage, loadedInto>>
    /\ UNCHANGED <<registrations, nonRegVars>>

\* What simulateRegistration writes, and clearSavedFormData after it
simulateRegistration(storage, userData) ==
    [storage EXCEPT !.user_data = [set |-> TRUE, data |-> userData],
                    !.registration_pending = [set |-> TRUE, data |-> "true"],
                    !.registration_draft = NoEntry]

\* The delay of simulateRegistration is over: the rest of handleRegistration.
\* Runs that wait were submitted by the same click.
RegistrationCompletes ==
    /\ FormInUse
    /\ \E run \in Runs : submission[run].pending
    /\ regStorage' = [run \in Runs |->
          IF submission[run].pending
          THEN simulateRegistration(regStorage[run], submission[run].userData)
          ELSE regStorage[run]]
    /\ submission' = [run \in Runs |-> NoSubmission]
    /\ registrations' = [run \in Runs |->
          IF submission[run].pending THEN registrations[run] + 1 ELSE registrations[run]]
    /\ advancedWith' = NotAdvancing
    /\ UNCHANGED <<form, passwordStrength, currentStep, usernameAvailable, debounce, checks,
                   loadedInto>>
    /\ UNCHANGED nonRegVars

\* The page is loaded again: a new AuthManager on the markup's empty form,
\* whose constructor ends with loadSavedFormData and checkPasswordStrength.
\* Timers and a registration in flight are gone with the old page.
LoadRegistrationPage ==
    /\ FormInUse
    /\ form' = [run \in Runs |->
          [k \in FieldNames |-> Loaded(regStorage[run].registration_draft, k)]]
    /\ loadedInto' = UNION {LoadedKeys(regStorage[run].registration_draft) : run \in Runs}
    /\ passwordStrength' = [run \in Runs |-> StrengthOf(form'[run].password)]
    /\ currentStep' = [run \in Runs |-> 1]
    /\ usernameAvailable' = "null"
    /\ debounce' = FALSE
    /\ checks' = <<>>
    /\ submission' = [run \in Runs |-> NoSubmission]
    /\ advancedWith' = NotAdvancing
    /\ UNCHANGED regStorage
    /\ UNCHANGED <<registrations, nonRegVars>>

\* A first visit of the registration page
RegInit ==
    /\ form = [run \in Runs |-> [k \in FieldNames |-> ""]]
    /\ passwordStrength = [run \in Runs |-> 0]
    /\ currentStep = [run \in Runs |-> 1]
    /\ usernameAvailable = "null"
    /\ debounce = FALSE
    /\ checks = <<>>
    /\ submission = [run \in Runs |-> NoSubmission]
    /\ regStorage = [run \in Runs |-> EmptyStorage]
    /\ advancedWith = NotAdvancing
    /\ loadedInto = {}
    /\ registrations = [run \in Runs |-> 0]

\* A page without the registration form
RegParked == RegInit

(***************************************************************************)
(* The login page: AuthManager.handleLogin and simulateLogin (auth.js)     *)
(***************************************************************************)
LoginEmails == {"", "demo@physicslearn.com", "Demo@physicslearn.com"}
LoginPasswords == {"", "demo123", "demo1234"}

NoToken == [user_token |-> NoEntry, user_email |-> NoEntry]

nonLoginVars == <<civilVars, simVars, fxVars, perfVars, regVars>>

\* simulateLogin accepting the demo address with any password
AcceptsDemoEmail(credentials) == credentials.email = "demo@physicslearn.com"

\* simulateLogin: the comparison with the demo pair
CredentialsAccepted(credentials) ==
    credentials.email = "demo@physicslearn.com" /\ credentials.password = "demo123"

\* simulateLogin: the two setItem calls; Date.now() differs between attempts
simulateLogin(storage, credentials, time) ==
    [storage EXCEPT !.user_token = [set |-> TRUE, data |-> <<"token_", time>>],
                    !.user_email = [set |-> TRUE, data |-> credentials.email]]

\* A first visit of the login page
LoginInit ==
    /\ loginForm = [email |-> "", password |-> ""]
    /\ loginLoading = FALSE
    /\ loginStorage = NoToken
    /\ errorsShown = 0
    /\ location = "login"
    /\ loginAttempt = [phase |-> "none"]
    /\ attempts = 0

\* A page without the login form
LoginParked == LoginInit

\* The visitor types into the email or the password input
InputLogin(field, value) ==
    /\ location = "login"
    /\ loginForm[field] # value
    /\ loginForm' = [loginForm EXCEPT ![field] = value]
    /\ UNCHANGED <<loginLoading, loginStorage, errorsShown, location, loginAttempt, attempts>>
    /\ UNCHANGED nonLoginVars

\* handleLogin up to the await, on the form's submit event; the disabled
\* submit button submits nothing
handleLogin ==
    /\ location = "login"
    /\ ~loginLoading
    /\ attempts < MaxAttempts
    /\ attempts' = attempts + 1
    /\ loginLoading' = TRUE
    /\ loginAttempt' = [phase |-> "pending", credentials |-> loginForm,
                        storageBefore |-> loginStorage, errorsBefore |-> errorsShown]
    /\ UNCHANGED <<loginForm, loginStorage, errorsShown, location>>
    /\ UNCHANGED nonLoginVars

\* The delay of simulateLogin is over: its check, then the rest of
\* handleLogin with its catch and finally blocks
LoginCompletes ==
    /\ loginAttempt.phase = "pending"
    /\ IF CredentialsAccepted(loginAttempt.credentials)
       THEN /\ loginStorage' = simulateLogin(loginStorage, loginAttempt.credentials, attempts)
            /\ location' = "redirect"
            /\ UNCHANGED errorsShown
       ELSE /\ errorsShown' = errorsShown + 1
            /\ UNCHANGED <<loginStorage, location>>
    /\ loginLoading' = FALSE
    /\ loginAttempt' = [loginAttempt EXCEPT !.phase = "done"]
    /\ UNCHANGED <<loginForm, attempts>>
    /\ UNCHANGED nonLoginVars

\* The login page is loaded again: a new document and a new AuthManager;
\* a login in flight is gone with the old page, localStorage stays
LoadLoginPage ==
    /\ loginForm' = [email |-> "", password |-> ""]
    /\ loginLoading' = FALSE
    /\ errorsShown' = 0
    /\ location' = "login"
    /\ loginAttempt' = [phase |-> "none"]
    /\ UNCHANGED <<loginStorage, attempts>>
    /\ UNCHANGED nonLoginVars

(***************************************************************************)
(* RegSpec: two runs of the registration page under the same events.       *)
(***************************************************************************)
RegSpecInit == CivilInit /\ SimParked /\ FxParked /\ PerfParked /\ RegInit /\ LoginParked

RegNext ==
    \/ \E value \in EmailInputs : InputPublic("email", value)
    \/ \E value \in UsernameInputs : InputPublic("username", value)
    \/ \E values \in PasswordInputs : InputSecret("password", values)
    \/ \E values \in PasswordInputs : InputSecret("confirmPassword", values)
    \/ DebounceFires
    \/ CheckCompletes
    \/ nextStep
    \/ prevStep
    \/ handleRegistration
    \/ RegistrationCompletes
    \/ LoadRegistrationPage

RegSpec == RegSpecInit /\ [][RegNext]_vars

(***************************************************************************)
(* LoginSpec: the login page.                                              *)
(***************************************************************************)
LoginSpecInit == CivilInit /\ SimParked /\ FxParked /\ PerfParked /\ RegParked /\ LoginInit

LoginNext ==
    \/ \E value \in LoginEmails : InputLogin("email", value)
    \/ \E value \in LoginPasswords : InputLogin("password", value)
    \/ handleLogin
    \/ LoginCompletes
    \/ LoadLoginPage

LoginSpec == LoginSpecInit /\ [][LoginNext]_vars

(***************************************************************************)
(* PerfSpec: page loads, the toggle, and the manager's FPS and memory     *)
(* monitors, in any interleaving.                                          *)
(***************************************************************************)
PerfSpecInit == CivilInit /\ SimParked /\ FxParked /\ PerfInit /\ RegParked /\ LoginParked

PerfNext ==
    \/ Reload
    \/ NewToggle
    \/ ClickToggle
    \/ MeasureFPS
    \/ MemoryHigh

PerfSpec == PerfSpecInit /\ [][PerfNext]_vars

(***************************************************************************)
(* FxSpec: the render loops of a manager constructed on a page with any    *)
(* subset of the containers, and its destroy().                            *)
(***************************************************************************)
FxSpecInit == CivilInit /\ SimParked /\ FxInit /\ PerfParked /\ RegParked /\ LoginParked

FxNext ==
    \/ AnimationFrame
    \/ Destroy

FxSpec == FxSpecInit /\ [][FxNext]_vars

(***************************************************************************)
(* SimSpec: the four simulations under clicks, parameter changes, resizes, *)
(* page hiding and p5's setup and draw callbacks.                          *)
(***************************************************************************)
SimSpecInit == CivilInit /\ SimInit /\ FxParked /\ PerfParked /\ RegParked /\ LoginParked

SimNext ==
    \/ SetupSketch
    \/ DrawFrame
    \/ ClickStart
    \/ ClickPause
    \/ ClickReset
    \/ ChangeParameter
    \/ ResizeWindow
    \/ HidePage

SimSpec == SimSpecInit /\ [][SimNext]_vars

nonCivilVars == <<simVars, fxVars, perfVars, regVars, loginVars>>

MouseDown == (\E pos \in MousePositions : handleMouseDown(pos)) /\ UNCHANGED nonCivilVars
MouseMove == (\E pos \in MousePositions : handleMouseMove(pos)) /\ UNCHANGED nonCivilVars
MouseUp == (\E pos \in MousePositions : handleMouseUp(pos)) /\ UNCHANGED nonCivilVars
SelectTool == (\E tool \in DRAWING_TOOLS : tool # state.activeTool /\ setActiveTool(tool)) /\ UNCHANGED nonCivilVars
ChangeWallSettings == (\E settings \in WallSettingsInputs : updateWallSettings(settings)) /\ UNCHANGED nonCivilVars
SwitchView == (\E view \in {"2d", "3d"} : setActiveView(view)) /\ UNCHANGED nonCivilVars
DeleteObject == (\E id \in 0..MaxNow : deleteObject(id)) /\ UNCHANGED nonCivilVars
AddObject ==
    /\ \E tool \in {"line", "rectangle", "circle", "polygon", "freehand"} :
          \E from \in GridPoints, to \in GridPoints :
              /\ from # to
              /\ addObject(NewObject(tool, PathFor(tool, from, to), to, now))
    /\ UNCHANGED nonCivilVars
ChangeGrid == ChangeGridSize /\ UNCHANGED nonCivilVars
ChangeSnap == ChangeSnapToGrid /\ UNCHANGED nonCivilVars
ClearCanvas == clearCanvas /\ UNCHANGED nonCivilVars
ClockTick == Tick /\ UNCHANGED nonCivilVars

(***************************************************************************)
(* Spec: the drawing canvas under mouse, toolbar, grid and view events.    *)
(***************************************************************************)
Init == CivilInit /\ SimParked /\ FxParked /\ PerfParked /\ RegParked /\ LoginParked

Next ==
    \/ MouseDown
    \/ MouseMove
    \/ MouseUp
    \/ SelectTool
    \/ ChangeGrid
    \/ ChangeSnap
    \/ SwitchView

Spec == Init /\ [][Next]_vars

(***************************************************************************)
(* ObjectsSpec: the object list under addObject, deleteObject and          *)
(* clearCanvas, and its rendering by Building3D.                           *)
(***************************************************************************)
ObjectsNext ==
    \/ AddObject
    \/ DeleteObject
    \/ ClearCanvas
    \/ ChangeWallSettings
    \/ SwitchView
    \/ ClockTick

ObjectsSpec == Init /\ [][ObjectsNext]_vars

(***************************************************************************)
(* Properties of the CivilEye object list and its 3D rendering             *)
(* (ObjectsSpec).                                                          *)
(***************************************************************************)
LiveObjects(history) ==
    LET live == SelectSeq(history, LAMBDA e : e.live)
    IN [i \in 1..Len(live) |-> live[i].obj]

\* C1: the object list is append/remove by id: after any sequence of ADD_OBJECT
\* and DELETE_OBJECT dispatches it equals the added objects in insertion order
\* minus those whose id was deleted after they were added.
C1_AppendRemoveById == state.objects = LiveObjects(added)

\* C1 witness: two objects were added, the first was deleted by id, the second
\* is what remains.
C1_Witness ==
    /\ Len(added) = 2
    /\ ~added[1].live
    /\ added[2].live
    /\ added[1].obj.id # added[2].obj.id
    /\ state.objects = <<added[2].obj>>

SceneShown == activeView = "3d" /\ Len(state.objects) > 0

\* C2 (as claimed): every rectangle becomes a wall box of the same footprint:
\* |width| along X, |height| along Z, centred at (x + width/2, y + height/2),
\* with vertical extent wallSettings.height.
C2_RectangleFootprint ==
    \A k \in DOMAIN scene :
        scene[k].key[1] = "wall" =>
            LET obj == state.objects[scene[k].key[2] + 1]
            IN /\ scene[k].box = <<Scaled(JSAbs(obj.width)),
                                   Scaled(state.wallSettings.height),
                                   Scaled(JSAbs(obj.height))>>
               /\ scene[k].position[1] = JSAdd(Scaled(obj.x), Half(obj.width))
               /\ scene[k].position[3] = JSAdd(Scaled(obj.y), Half(obj.height))

ConvertibleTypes == {"rectangle", "line", "polygon"}

KeyPrefix(type) ==
    CASE type = "rectangle" -> "wall"
      [] type = "line" -> "line"
      [] type = "polygon" -> "polygon"

\* C3 (as claimed): Building3D produces exactly one group per drawn object.
C3_OneGroupPerObject == SceneShown => Len(scene) = Len(state.objects)

\* C3 (amended): Building3D produces, in list order, exactly one group for each
\* rectangle, line or polygon of the list and none for a circle or a freehand
\* object, so the number of groups is the number of rectangles, lines and
\* polygons.
C3_OneGroupPerConvertible ==
    SceneShown =>
        LET conv == {i \in DOMAIN state.objects : state.objects[i].type \in ConvertibleTypes}
        IN /\ Len(scene) = Cardinality(conv)
           /\ {scene[k].key[2] + 1 : k \in DOMAIN scene} = conv
           /\ \A k \in DOMAIN scene :
                  scene[k].key[1] = KeyPrefix(state.objects[scene[k].key[2] + 1].type)
           /\ \A j, k \in DOMAIN scene : j < k => scene[j].key[2] < scene[k].key[2]

\* C3 witness: the 3D view shows a list holding a circle and a rectangle as one group.
C3_Witness ==
    /\ SceneShown
    /\ Len(state.objects) = 2
    /\ state.objects[1].type = "circle"
    /\ state.objects[2].type = "rectangle"
    /\ Len(scene) = 1
    /\ scene[1].key = <<"wall", 1>>

(***************************************************************************)
(* Properties of the drawing canvas (Spec).                                *)
(***************************************************************************)
\* C6 (as claimed): with the freehand tool active, a mouse-down followed by any
\* number of mouse-moves and a mouse-up adds exactly one object of type freehand.
C6_FreehandGestureAddsOne ==
    (gesture.phase = "up" /\ state.activeTool = "freehand") =>
        /\ Len(state.objects) = gesture.base + 1
        /\ state.objects[Len(state.objects)].type = "freehand"

PolygonAddedSince(base) ==
    \E i \in DOMAIN state.objects : i > base /\ state.objects[i].type = "polygon"

\* C7 (as claimed): with the polygon tool active, successive clicks accumulate
\* vertices in the current path until a polygon is added, which happens after
\* enough clicks; and every polygon ever added has at least 3 points.
C7_PolygonClicksAccumulate ==
    /\ (gesture.phase = "up" /\ state.activeTool = "polygon" /\ gesture.fresh) =>
           \/ PolygonAddedSince(gesture.base)
           \/ (gesture.clicks < MaxClicks /\ Len(currentPath) = gesture.clicks)
    /\ \A k \in DOMAIN added :
           added[k].obj.type = "polygon" => Len(added[k].obj.points) >= 3

IsMultipleOf(v, g) ==
    /\ v # NaN
    /\ g # NaN
    /\ IF g = 0 THEN v = 0 ELSE v % g = 0

OnGrid(point, g) == IsMultipleOf(point.x, g) /\ IsMultipleOf(point.y, g)

Near(v, w, g) == v # NaN /\ w # NaN /\ 2 * JSAbs(v - w) <= g

\* The points and corners an object stores
StoredPoints(obj) ==
    CASE obj.type \in {"line", "polygon", "freehand"} ->
           {obj.points[i] : i \in DOMAIN obj.points}
      [] obj.type = "rectangle" ->
           {[x |-> obj.x, y |-> obj.y],
            [x |-> JSAdd(obj.x, obj.width), y |-> JSAdd(obj.y, obj.height)]}
      [] OTHER -> {}

SnapIsNearestGridPoint(pos) ==
    LET out == SnapOf(pos)
    IN IF state.snapToGrid
       THEN /\ OnGrid(out, state.gridSize)
            /\ Near(out.x, pos.x, state.gridSize)
            /\ Near(out.y, pos.y, state.gridSize)
            /\ SnapOf(out) = out
       ELSE out = pos

StoredPointsOnGrid ==
    \A k \in DOMAIN added :
        added[k].snapped =>
            \A point \in StoredPoints(added[k].obj) : OnGrid(point, added[k].g)

\* C8 (as claimed): with snapping on, snapToGridPoint returns the nearest grid
\* point and is idempotent, with snapping off it returns the point unchanged;
\* hence every point or corner of an object drawn with snapping on and the grid
\* size unchanged during the drawing is a multiple of the grid size.
C8_SnapToGrid ==
    /\ \A pos \in MousePositions : SnapIsNearestGridPoint(pos)
    /\ StoredPointsOnGrid

\* The same holds as long as the grid size handed to setGridSettings is positive.
SnapToPositiveGrid ==
    /\ \A pos \in MousePositions :
           state.gridSize > 0 => SnapIsNearestGridPoint(pos)
    /\ \A k \in DOMAIN added :
           (added[k].snapped /\ added[k].g > 0) =>
               \A point \in StoredPoints(added[k].obj) : OnGrid(point, added[k].g)

(***************************************************************************)
(* Properties of the simulations (SimSpec).                                *)
(***************************************************************************)
\* What the last event left of the flag of its sketch
FlagAfterControl(id) ==
    /\ lastEvent.kind = "start" => isRunning[id]
    /\ lastEvent.kind = "pause" => ~isRunning[id]
    /\ lastEvent.kind \in {"parameter", "resize", "setup", "draw"} =>
          isRunning[id] = lastEvent.before
    /\ lastEvent.kind = "draw" => (lastEvent.updated <=> isRunning[id])

ResetStopsAndResetsModel(id) ==
    lastEvent.kind = "reset" => ~isRunning[id] /\ ~modelDirty[id]

\* C4 (as claimed): for each of the four simulations the running flag is false
\* initially, true after start, false after pause, false after reset, which
\* also resets the model, and unchanged by a parameter change or a resize;
\* a draw frame runs the model's update() exactly when the flag is true.
C4_RunningFlagIsOnlyControl ==
    /\ lastEvent.kind \in {"none", "pauseAll"} => \A id \in SimulationIds : ~isRunning[id]
    /\ \A id \in simulations :
          lastEvent.id = id => FlagAfterControl(id) /\ ResetStopsAndResetsModel(id)

\* What the sketches do guarantee: everything but the reset of a sketch that
\* p5 has not set up yet.
FlagExceptEarlyReset ==
    /\ lastEvent.kind \in {"none", "pauseAll"} => \A id \in SimulationIds : ~isRunning[id]
    /\ \A id \in simulations :
          lastEvent.id = id =>
              /\ FlagAfterControl(id)
              /\ isSetUp[id] => ResetStopsAndResetsModel(id)

(***************************************************************************)
(* Properties of the effect loops (FxSpec).                                *)
(***************************************************************************)
\* C5 (as claimed): after ThreeEffectsManager.destroy() every render loop the
\* manager started is stopped, whichever containers the page has: no loop has
\* a frame requested and no loop renders again.
C5_DestroyStopsEveryLoop ==
    destroyed =>
        /\ \A loop \in Loops : pendingFrame[loop] = 0
        /\ renderedAfterDestroy = {}

\* destroy() does stop every loop on a page that lacks one of the two
\* containers whose loops share the key "wave".
DestroyStopsUnsharedKeys ==
    (destroyed /\ ~({"wave-function", "wave-preview"} \subseteq containers)) =>
        /\ \A loop \in Loops : pendingFrame[loop] = 0
        /\ renderedAfterDestroy = {}

(***************************************************************************)
(* Properties of the performance mode (PerfSpec).                          *)
(***************************************************************************)
ModeName(mode) == IF mode THEN "advanced" ELSE "performance"

\* After a toggle the stored value names the mode, and a toggle constructed
\* with a value stored starts in the mode it names.
StoredNamesMode ==
    /\ toggleHistory.n >= 1 => storedMode = ModeName(isAdvancedMode)
    /\ (toggleExists /\ storedMode # "none") => storedMode = ModeName(isAdvancedMode)

\* C9 (as claimed): after togglePerformanceMode the stored value is 'advanced'
\* exactly when isAdvancedMode is true, a PerformanceToggle constructed
\* afterwards starts in that mode, and toggling twice restores the original
\* mode and the original stored value.
C9_ToggleTwiceRestoresStored ==
    /\ StoredNamesMode
    /\ toggleHistory.n = 2 =>
          /\ isAdvancedMode = toggleHistory.mode
          /\ storedMode = toggleHistory.stored

\* C9 (amended): as claimed, except that toggling twice restores the original
\* stored value only when one was stored; with nothing stored before, the
\* stored value after two toggles is the name of the original mode.
C9_ToggleTwiceRestoresMode ==
    /\ StoredNamesMode
    /\ toggleHistory.n = 2 =>
          /\ isAdvancedMode = toggleHistory.mode
          /\ storedMode = ModeName(toggleHistory.mode)
          /\ toggleHistory.stored # "none" => storedMode = toggleHistory.stored

\* C9 witness: a toggle constructed from a stored preference has been toggled twice.
C9_Witness ==
    /\ toggleHistory.n = 2
    /\ toggleHistory.restored

GlobalsOf(mode) ==
    IF mode
    THEN DISABLE_3D_BACKGROUNDS = "false" /\ PARTICLE_COUNT_MULTIPLIER = One
    ELSE DISABLE_3D_BACKGROUNDS = "true" /\ PARTICLE_COUNT_MULTIPLIER = 0

\* C10 (as claimed): once the toggle exists, DISABLE_3D_BACKGROUNDS and
\* PARTICLE_COUNT_MULTIPLIER are false and 1 in Advanced mode and true and 0
\* in Performance mode, however the toggle's actions interleave with the
\* manager's FPS adjustment and memory monitor.
C10_GlobalsReflectMode == toggleExists => GlobalsOf(isAdvancedMode)

\* The globals do reflect the mode right after the toggle is constructed or
\* clicked, until the manager next adjusts them.
GlobalsReflectModeWhenFresh ==
    (toggleExists /\ toggleHistory.fresh) => GlobalsOf(isAdvancedMode)

(***************************************************************************)
(* The registration page (RegSpec)                                         *)
(***************************************************************************)

\* C11: the draft stored under 'registration_draft' does not depend on the
\* password and confirmPassword fields: it never has an entry for them; two
\* runs of the same form inputs that differ only in what is typed into
\* those fields hold identical drafts; and loadSavedFormData writes into no
\* password-type field.  The runs are compared over their form inputs, that
\* is until one of them has completed a registration: clearSavedFormData
\* then removes the draft of the run whose passwords were accepted.
C11_DraftIndependentOfPasswords ==
    /\ \A run \in Runs :
          regStorage[run].registration_draft.set =>
             DOMAIN regStorage[run].registration_draft.data
                \cap {"password", "confirmPassword"} = {}
    /\ (\A run \in Runs : registrations[run] = 0) =>
          regStorage[1].registration_draft = regStorage[2].registration_draft
    /\ \A name \in loadedInto : FieldType(name) # "password"

\* Both runs hold a draft saved while their passwords differ, on a page
\* whose form was filled from a draft
C11_Witness ==
    /\ loadedInto # {}
    /\ form[1].password # form[2].password
    /\ form[1].password # ""
    /\ \A run \in Runs : regStorage[run].registration_draft.set

\* C12: what a successful registration stores under 'user_data' does not
\* depend on the password and confirmPassword fields: two runs of the same
\* events that differ only in those fields store the same value.
C12_UserDataIndependentOfPasswords ==
    (\A run \in Runs : regStorage[run].user_data.set) =>
       regStorage[1].user_data = regStorage[2].user_data

\* C14: when nextStep leaves step 2 for step 3, the username in the field
\* is one for which simulateUsernameCheck returns true.
C14_AdvancesWithFreeUsername ==
    \A run \in Runs :
       advancedWith[run] # "none" => simulateUsernameCheck(advancedWith[run])

(***************************************************************************)
(* The login page (LoginSpec)                                              *)
(***************************************************************************)
DemoCredentials == [email |-> "demo@physicslearn.com", password |-> "demo123"]

\* C13: a handleLogin call that has completed has written 'user_token' and
\* 'user_email' and redirected if the submitted credentials are exactly the
\* demo pair; for any other credentials it has left localStorage as it was,
\* shown one error notification and not redirected; in both outcomes the
\* submit button is no longer loading.  While the call waits, nothing has
\* been written.
C13_LoginOnlyWithDemoPair ==
    /\ loginAttempt.phase = "pending" =>
          loginStorage = loginAttempt.storageBefore /\ location = "login"
    /\ loginAttempt.phase = "done" =>
          /\ ~loginLoading
          /\ IF loginAttempt.credentials = DemoCredentials
             THEN /\ loginStorage.user_token.set
                  /\ loginStorage.user_email = [set |-> TRUE, data |-> DemoCredentials.email]
                  /\ location = "redirect"
             ELSE /\ loginStorage = loginAttempt.storageBefore
                  /\ errorsShown = loginAttempt.errorsBefore + 1
                  /\ location = "login"

\* A login with the demo address and a wrong password has failed on a
\* browser that holds the token of an earlier login
C13_Witness ==
    /\ loginAttempt.phase = "done"
    /\ loginAttempt.credentials.email = DemoCredentials.email
    /\ loginAttempt.credentials.password = "demo1234"
    /\ loginAttempt.storageBefore.user_token.set

====
